---- MODULE Spec2Model ----
(***************************************************************************)
(* State-machine model of pyvista's AffineWidget3D                         *)
(* (src/pyvista/plotting/affine_widget.py): the move / press / release     *)
(* handlers, reset, the origin setter and enable / disable / remove,       *)
(* together with the event source they register with.                      *)
(*                                                                         *)
(* Axes are numbered 1..3 here (0..2 in the source); a 4x4 matrix is a     *)
(* sequence of four rows, so matrix[index, -1] of the source is m[i][4].   *)
(***************************************************************************)
EXTENDS Integers, Sequences, FiniteSets, TLC

\* Largest magnitude of a finite entry of the target's matrix.
MaxCoord == 1
\* Largest observer tag the event source hands out.
MaxTag == 6
\* How many drags a run starts.
MaxDrags == 1
\* How many TextProperty objects a run allocates.
MaxProps == 3
\* How many Text and CornerAnnotation objects a run allocates.
MaxActors == 2

(***************************************************************************)
(* Floating point.  A double is modelled exactly where it is an integer;   *)
(* the three non-finite values that the arithmetic can produce (division   *)
(* by zero) are coded as integers beyond every finite value of the model.  *)
(* Signed zeros are identified.                                            *)
(***************************************************************************)
PInf == 1000 * 1000
NInf == 0 - PInf
NaN == PInf + 1
F(n) == n
Finite(a) == NInf < a /\ a < PInf
IsNaN(a) == a = NaN
Sgn(n) == IF n > 0 THEN 1 ELSE IF n < 0 THEN 0 - 1 ELSE 0
Abs(n) == IF n < 0 THEN 0 - n ELSE n
Inf(sign) == IF sign < 0 THEN NInf ELSE PInf

FNeg(a) == IF IsNaN(a) THEN NaN ELSE 0 - a
FAdd(a, b) ==
  IF Finite(a) /\ Finite(b) THEN a + b
  ELSE IF IsNaN(a) \/ IsNaN(b) THEN NaN
  ELSE IF Finite(a) THEN b
  ELSE IF Finite(b) THEN a
  ELSE IF a = b THEN a ELSE NaN
FSub(a, b) == FAdd(a, FNeg(b))
FMul(a, b) ==
  IF Finite(a) /\ Finite(b) THEN a * b
  ELSE IF IsNaN(a) \/ IsNaN(b) THEN NaN
  ELSE IF a = 0 \/ b = 0 THEN NaN
  ELSE Inf(Sgn(a) * Sgn(b))
\* Exact quotient of two integers (the inputs are chosen so that it exists).
IntDiv(n, d) == Sgn(n) * Sgn(d) * (Abs(n) \div Abs(d))
Divides(d, n) == d # 0 /\ Abs(n) % Abs(d) = 0
FDiv(a, b) ==
  IF IsNaN(a) \/ IsNaN(b) THEN NaN
  ELSE IF Finite(a) /\ Finite(b) THEN
         IF b = 0 THEN (IF a = 0 THEN NaN ELSE Inf(Sgn(a)))
         ELSE IntDiv(a, b)
  ELSE IF ~Finite(a) /\ ~Finite(b) THEN NaN
  ELSE IF ~Finite(a) THEN Inf(Sgn(a) * (IF b < 0 THEN 0 - 1 ELSE 1))
  ELSE 0
\* a < b as IEEE compares: false whenever an operand is NaN.
FLt(a, b) == ~IsNaN(a) /\ ~IsNaN(b) /\ a < b
\* Whether a / b is a value of the model (an integer or a non-finite value).
ExactDiv(a, b) == (Finite(a) /\ Finite(b) /\ b # 0) => Divides(b, a)

(***************************************************************************)
(* Vectors of three doubles and 4x4 matrices of doubles.                   *)
(***************************************************************************)
Vec(x, y, z) == <<F(x), F(y), F(z)>>
VAdd(p, q) == <<FAdd(p[1], q[1]), FAdd(p[2], q[2]), FAdd(p[3], q[3])>>
VSub(p, q) == <<FSub(p[1], q[1]), FSub(p[2], q[2]), FSub(p[3], q[3])>>
VNeg(p) == <<FNeg(p[1]), FNeg(p[2]), FNeg(p[3])>>
VScale(t, p) == <<FMul(t, p[1]), FMul(t, p[2]), FMul(t, p[3])>>
VDivScalar(p, t) == <<FDiv(p[1], t), FDiv(p[2], t), FDiv(p[3], t)>>
\* np.dot of two 3-vectors
Dot(p, q) == FAdd(FAdd(FMul(p[1], q[1]), FMul(p[2], q[2])), FMul(p[3], q[3]))
\* np.cross
Cross(p, q) ==
  << FSub(FMul(p[2], q[3]), FMul(p[3], q[2])),
     FSub(FMul(p[3], q[1]), FMul(p[1], q[3])),
     FSub(FMul(p[1], q[2]), FMul(p[2], q[1])) >>
VFinite(p) == \A k \in 1..3 : Finite(p[k])
IsSquare(n) == \E r \in 0..n : r * r = n
ISqrt(n) == CHOOSE r \in 0..n : r * r = n
\* Whether np.linalg.norm(p) is a value of the model.
NormExact(p) == VFinite(p) => IsSquare(Dot(p, p))
\* np.linalg.norm
Norm(p) ==
  IF \E k \in 1..3 : IsNaN(p[k]) THEN NaN
  ELSE IF ~VFinite(p) THEN PInf
  ELSE ISqrt(Dot(p, p))

Eye4 ==
  << <<F(1), F(0), F(0), F(0)>>,
     <<F(0), F(1), F(0), F(0)>>,
     <<F(0), F(0), F(1), F(0)>>,
     <<F(0), F(0), F(0), F(1)>> >>
\* np.dot of two 4x4 matrices
MatMulEntry(a, b, i, j) ==
  FAdd(FAdd(FAdd(FMul(a[i][1], b[1][j]), FMul(a[i][2], b[2][j])),
            FMul(a[i][3], b[3][j])), FMul(a[i][4], b[4][j]))
MatMulRow(a, b, i) ==
  << MatMulEntry(a, b, i, 1), MatMulEntry(a, b, i, 2),
     MatMulEntry(a, b, i, 3), MatMulEntry(a, b, i, 4) >>
MatMul(a, b) ==
  << MatMulRow(a, b, 1), MatMulRow(a, b, 2), MatMulRow(a, b, 3), MatMulRow(a, b, 4) >>
\* vtkTransform.Translate(p) as a matrix
TranslationMatrix(p) ==
  << <<F(1), F(0), F(0), p[1]>>,
     <<F(0), F(1), F(0), p[2]>>,
     <<F(0), F(0), F(1), p[3]>>,
     <<F(0), F(0), F(0), F(1)>> >>
MatrixInRange(m) ==
  \A i \in 1..4 : \A j \in 1..4 : Finite(m[i][j]) => Abs(m[i][j]) <= MaxCoord

(***************************************************************************)
(* Module constants and pure helpers of affine_widget.py.                  *)
(***************************************************************************)
DARK_YELLOW == "DARK_YELLOW"
INDEX_MAPPER == <<2, 3, 1>>
AXES == << Vec(1, 0, 0), Vec(0, 1, 0), Vec(0, 0, 1) >>

\* np.clip(x, -1.0, 1.0)
Clip(x) ==
  IF IsNaN(x) THEN NaN
  ELSE IF FLt(x, F(0 - 1)) THEN F(0 - 1)
  ELSE IF FLt(F(1), x) THEN F(1)
  ELSE x
\* np.arccos(c) * (180 / np.pi) for c in {-1, 0, 1} or NaN
ArccosDeg(c) ==
  IF IsNaN(c) THEN NaN
  ELSE IF c = 1 THEN F(0)
  ELSE IF c = 0 THEN F(90)
  ELSE F(180)
get_angle(v1, v2) == ArccosDeg(Clip(Dot(v1, v2)))

\* A variant of RayParameter that measures from the plane to the start point
RayParameter_from_plane(start_point, direction, plane_point, normal) ==
  FDiv(Dot(normal, VSub(start_point, plane_point)), Dot(normal, direction))

\* t_value = np.dot(normal, plane_point - start_point) / np.dot(normal, direction)
RayParameter(start_point, direction, plane_point, normal) ==
  FDiv(Dot(normal, VSub(plane_point, start_point)), Dot(normal, direction))
ray_plane_intersection(start_point, direction, plane_point, normal) ==
  VAdd(start_point,
       VScale(RayParameter(start_point, direction, plane_point, normal), direction))

\* cos and sin of an angle in degrees that is a multiple of 90, or NaN
CosDeg(a) ==
  IF ~Finite(a) THEN NaN
  ELSE LET r == a % 360
       IN IF r = 0 THEN F(1) ELSE IF r = 180 THEN F(0 - 1) ELSE F(0)
SinDeg(a) ==
  IF ~Finite(a) THEN NaN
  ELSE LET r == a % 360
       IN IF r = 90 THEN F(1) ELSE IF r = 270 THEN F(0 - 1) ELSE F(0)
\* The matrix vtkTransform.RotateWXYZ concatenates for a NaN angle: the
\* quaternion is NaN in every component, so the whole 3x3 block is NaN.
NaNRotation ==
  << <<NaN, NaN, NaN, F(0)>>,
     <<NaN, NaN, NaN, F(0)>>,
     <<NaN, NaN, NaN, F(0)>>,
     <<F(0), F(0), F(0), F(1)>> >>
RotateX(angle) ==
  IF angle = F(0) THEN Eye4
  ELSE IF ~Finite(angle) THEN NaNRotation
  ELSE LET c == CosDeg(angle)
           s == SinDeg(angle)
       IN << <<F(1), F(0), F(0), F(0)>>,
             <<F(0), c, FNeg(s), F(0)>>,
             <<F(0), s, c, F(0)>>,
             <<F(0), F(0), F(0), F(1)>> >>
RotateY(angle) ==
  IF angle = F(0) THEN Eye4
  ELSE IF ~Finite(angle) THEN NaNRotation
  ELSE LET c == CosDeg(angle)
           s == SinDeg(angle)
       IN << <<c, F(0), s, F(0)>>,
             <<F(0), F(1), F(0), F(0)>>,
             <<FNeg(s), F(0), c, F(0)>>,
             <<F(0), F(0), F(0), F(1)>> >>
RotateZ(angle) ==
  IF angle = F(0) THEN Eye4
  ELSE IF ~Finite(angle) THEN NaNRotation
  ELSE LET c == CosDeg(angle)
           s == SinDeg(angle)
       IN << <<c, FNeg(s), F(0), F(0)>>,
             <<s, c, F(0), F(0)>>,
             <<F(0), F(0), F(1), F(0)>>,
             <<F(0), F(0), F(0), F(1)>> >>
\* trans.Translate(origin); trans.Rotate<axis>(angle); trans.Translate(-origin)
\* on a fresh (pre-multiplying) vtkTransform, read back as a matrix.
RotationTransform(origin, index, angle) ==
  LET rot == IF index = 1 THEN RotateX(angle)
             ELSE IF index = 2 THEN RotateY(angle)
             ELSE RotateZ(angle)
  IN MatMul(MatMul(TranslationMatrix(origin), rot),
            TranslationMatrix(VNeg(origin)))

(***************************************************************************)
(* Actors.  The widget's six handles, the target actor and the values a    *)
(* pick can return.                                                        *)
(***************************************************************************)
None == "None"
\* self._arrows and self._circles once _init_actors has run
Arrows == <<"arrow_x", "arrow_y", "arrow_z">>
Circles == <<"circle_x", "circle_y", "circle_z">>
InList(list, actor) == \E k \in 1..Len(list) : list[k] = actor
\* list.index(actor), counted from 1
IndexOf(list, actor) == CHOOSE k \in 1..Len(list) : list[k] = actor
Handles == {Arrows[k] : k \in 1..3} \cup {Circles[k] : k \in 1..3}
\* What picker.GetActor() can return: nothing, the target, or a handle.
MainActor == "main_actor"
Picks == {None, MainActor} \cup Handles
\* self._axes_colors (the theme's axis colours)
AxesColors == <<"x_color", "y_color", "z_color">>

\* The interaction styles of the plotter
TrackballStyle == "trackball"
TrackballActorStyle == "trackball_actor"
EventNames == {"MouseMoveEvent", "LeftButtonPressEvent", "LeftButtonReleaseEvent"}

\* Unset matrix or point (Python's None, or an attribute not yet assigned)
Unset == <<>>

VARIABLES
  phase,                    \* "new", "live" (constructed) or "rejected" (__init__ raised)
  callback,                 \* self._callback: one of CallbackArgs
  selected_actor,           \* self._selected_actor
  init_position,            \* self.init_position, Unset before the first press
  mouse_move_observer,      \* self._mouse_move_observer (0 is None)
  left_press_observer,      \* self._left_press_observer
  left_release_observer,    \* self._left_release_observer
  pl_left_press_observer,   \* self._pl._left_press_observer
  pl_left_release_observer, \* self._pl._left_release_observer
  cached_matrix,            \* self._cached_matrix
  user_matrix,              \* self._main_actor.user_matrix
  pressing_down,            \* self._pressing_down
  origin,                   \* self._origin
  color,                    \* prop.color of each handle
  handle_position,          \* translation part of each handle's user_matrix
  observers,                \* the event source's observers: [tag, event]
  next_tag,                 \* the tag the next add_observer returns
  picker_in_use,            \* self._pl._picker_in_use
  style,                    \* the plotter's interaction style
  renderer_actors,          \* the handle actors held by the renderer
  calls,                    \* the matrices the callback received in the last operation
  current_pos,              \* current_pos of a move handled during a drag, in the last operation
  event,                    \* the last operation
  drags,                    \* how many presses have started a drag
  vtk_version,              \* pv.vtk_version_info: <<major, minor>>
  raised,                   \* the exception the last operation raised to its caller, or None
  picker,                   \* the picking mode the plotter has: None, "mesh_hardware" or "other"
  call,                     \* the last call of a module-level function: name, arguments, result
  global_theme,             \* pv.global_theme
  class_theme,              \* the Theme object TextProperty._theme, shared by the class
  text_props,               \* the TextProperty objects allocated so far
  text_actors               \* the Text and CornerAnnotation objects allocated so far

vars == << phase, callback, selected_actor, init_position, mouse_move_observer,
           left_press_observer, left_release_observer, pl_left_press_observer,
           pl_left_release_observer, cached_matrix, user_matrix, pressing_down,
           origin, color, handle_position, observers, next_tag, picker_in_use,
           style, renderer_actors, calls, current_pos, event, drags,
           vtk_version, raised, picker, call, global_theme, class_theme,
           text_props, text_actors >>

\* The whole state as one record, so that a handler is a function on states.
State ==
  [ phase |-> phase, callback |-> callback, selected_actor |-> selected_actor,
    init_position |-> init_position, mouse_move_observer |-> mouse_move_observer,
    left_press_observer |-> left_press_observer,
    left_release_observer |-> left_release_observer,
    pl_left_press_observer |-> pl_left_press_observer,
    pl_left_release_observer |-> pl_left_release_observer,
    cached_matrix |-> cached_matrix, user_matrix |-> user_matrix,
    pressing_down |-> pressing_down, origin |-> origin, color |-> color,
    handle_position |-> handle_position, observers |-> observers,
    next_tag |-> next_tag, picker_in_use |-> picker_in_use, style |-> style,
    renderer_actors |-> renderer_actors, calls |-> calls,
    current_pos |-> current_pos, event |-> event, drags |-> drags,
    vtk_version |-> vtk_version, raised |-> raised, picker |-> picker ]

\* The widget, its plotter and its target become as in s
Assign(s) ==
  /\ phase' = s.phase
  /\ callback' = s.callback
  /\ selected_actor' = s.selected_actor
  /\ init_position' = s.init_position
  /\ mouse_move_observer' = s.mouse_move_observer
  /\ left_press_observer' = s.left_press_observer
  /\ left_release_observer' = s.left_release_observer
  /\ pl_left_press_observer' = s.pl_left_press_observer
  /\ pl_left_release_observer' = s.pl_left_release_observer
  /\ cached_matrix' = s.cached_matrix
  /\ user_matrix' = s.user_matrix
  /\ pressing_down' = s.pressing_down
  /\ origin' = s.origin
  /\ color' = s.color
  /\ handle_position' = s.handle_position
  /\ observers' = s.observers
  /\ next_tag' = s.next_tag
  /\ picker_in_use' = s.picker_in_use
  /\ style' = s.style
  /\ renderer_actors' = s.renderer_actors
  /\ calls' = s.calls
  /\ current_pos' = s.current_pos
  /\ event' = s.event
  /\ drags' = s.drags
  /\ vtk_version' = s.vtk_version
  /\ raised' = s.raised
  /\ picker' = s.picker

\* An operation of the widget: it touches neither the text objects nor the
\* record of module-level calls
Becomes(s) ==
  /\ Assign(s)
  /\ UNCHANGED <<call, global_theme, class_theme, text_props, text_actors>>

(***************************************************************************)
(* The event source (plotter.iren) and the plotter's picking switch.       *)
(***************************************************************************)
\* iren.add_observer(event, handler): registers it under a fresh tag
add_observer(s, ev) ==
  [s EXCEPT !.observers = @ \cup {[tag |-> s.next_tag, event |-> ev]},
            !.next_tag = @ + 1]
\* iren.remove_observer(tag): drops the observer registered under tag, if any
remove_observer(s, tag) ==
  [s EXCEPT !.observers = {o \in @ : o.tag # tag}]
\* How many handlers one physical event of this name runs
Registered(s, ev) == Cardinality({o \in s.observers : o.event = ev})
\* plotter.enable_mesh_picking(...) and plotter.disable_picking()
enable_mesh_picking(s) ==
  [s EXCEPT !.picker_in_use = TRUE, !.picker = "mesh_hardware"]
disable_picking(s) == [s EXCEPT !.picker_in_use = FALSE, !.picker = None]

(***************************************************************************)
(* The widget's methods, as functions on states.                           *)
(***************************************************************************)
_get_world_coord_rot(s, point, view_vec) ==
  IF s.selected_actor # None
  THEN ray_plane_intersection(point, view_vec, s.origin,
                              AXES[IndexOf(Circles, s.selected_actor)])
  ELSE point

_get_world_coord_trans(s, point, view_vec) ==
  ray_plane_intersection(point, view_vec, s.origin,
                         AXES[INDEX_MAPPER[IndexOf(Arrows, s.selected_actor)]])

\* vec - np.dot(vec, normal) * normal
ProjectOnPlane(vec, normal) == VSub(vec, VScale(Dot(vec, normal), normal))
\* vec /= np.linalg.norm(vec)
Normalize(vec) == VDivScalar(vec, Norm(vec))
Normalizable(vec) ==
  NormExact(vec) /\ \A k \in 1..3 : ExactDiv(vec[k], Norm(vec))

\* A variant of TranslatedBy that moves the entry of the plane's axis
TranslatedBy_plane_axis(matrix, index, diff) ==
  [matrix EXCEPT ![INDEX_MAPPER[index]][4] = FAdd(@, diff[index])]

\* matrix = self._cached_matrix.copy(); matrix[index, -1] += diff[index]
TranslatedBy(matrix, index, diff) ==
  [matrix EXCEPT ![index][4] = FAdd(@, diff[index])]

\* The drag branch of _move_callback for a translation arrow, current_pos
\* being the cursor's world point
TranslateDragTo(s, pos) ==
  [s EXCEPT !.user_matrix =
               TranslatedBy(s.cached_matrix, IndexOf(Arrows, s.selected_actor),
                            VSub(pos, s.init_position)),
            !.current_pos = pos]

\* A variant of SignedAngle that never negates
SignedAngle_unsigned(vec_init, vec_current, index) ==
  get_angle(vec_init, vec_current)

\* angle = get_angle(vec_init, vec_current), negated if cross[index] < 0
SignedAngle(vec_init, vec_current, index) ==
  IF FLt(Cross(vec_init, vec_current)[index], F(0))
  THEN FNeg(get_angle(vec_init, vec_current))
  ELSE get_angle(vec_init, vec_current)

\* The signed angle of a rotation drag about axis index
DragAngle(s, pos, index) ==
  SignedAngle(Normalize(ProjectOnPlane(VSub(s.init_position, s.origin), AXES[index])),
              Normalize(ProjectOnPlane(VSub(pos, s.origin), AXES[index])),
              index)

\* A variant of RotatedBy that multiplies on the other side
RotatedBy_right(matrix, origin_, index, angle) ==
  MatMul(matrix, RotationTransform(origin_, index, angle))

\* matrix = np.dot(rot_matrix, self._cached_matrix)
RotatedBy(matrix, origin_, index, angle) ==
  MatMul(RotationTransform(origin_, index, angle), matrix)

\* The drag branch of _move_callback for a rotation ring, current_pos being
\* the cursor's world point
RotateDragTo(s, pos) ==
  [s EXCEPT !.user_matrix =
               RotatedBy(s.cached_matrix, s.origin,
                         IndexOf(Circles, s.selected_actor),
                         DragAngle(s, pos, IndexOf(Circles, s.selected_actor))),
            !.current_pos = pos]

\* The base colour self._axes_colors[index] of a handle
BaseColor(handle) ==
  IF InList(Arrows, handle) THEN AxesColors[IndexOf(Arrows, handle)]
  ELSE AxesColors[IndexOf(Circles, handle)]

\* A variant of MoveDragOrDeselect whose deselection also resets the target
MoveDragOrDeselect_resets(s, actor, point, view_vec) ==
  IF s.pressing_down THEN
    IF InList(Arrows, s.selected_actor)
    THEN TranslateDragTo(s, _get_world_coord_trans(s, point, view_vec))
    ELSE IF InList(Circles, s.selected_actor)
    THEN RotateDragTo(s, _get_world_coord_rot(s, point, view_vec))
    ELSE s
  ELSE IF s.selected_actor # None /\ s.selected_actor # actor THEN
    [s EXCEPT !.color[s.selected_actor] = BaseColor(s.selected_actor),
              !.selected_actor = None,
              !.user_matrix = Eye4]
  ELSE s

\* A variant of MoveDragOrDeselect that deselects only when nothing is picked
MoveDragOrDeselect_sticky(s, actor, point, view_vec) ==
  IF s.pressing_down THEN
    IF InList(Arrows, s.selected_actor)
    THEN TranslateDragTo(s, _get_world_coord_trans(s, point, view_vec))
    ELSE IF InList(Circles, s.selected_actor)
    THEN RotateDragTo(s, _get_world_coord_rot(s, point, view_vec))
    ELSE s
  ELSE IF s.selected_actor # None /\ actor = None THEN
    [s EXCEPT !.color[s.selected_actor] = BaseColor(s.selected_actor),
              !.selected_actor = None]
  ELSE s

\* _move_callback up to the point where it highlights: the drag, or the
\* deselection of a handle that is no longer picked
MoveDragOrDeselect(s, actor, point, view_vec) ==
  IF s.pressing_down THEN
    IF InList(Arrows, s.selected_actor)
    THEN TranslateDragTo(s, _get_world_coord_trans(s, point, view_vec))
    ELSE IF InList(Circles, s.selected_actor)
    THEN RotateDragTo(s, _get_world_coord_rot(s, point, view_vec))
    ELSE s   \* matrix is unbound: the handler raises and changes nothing
  ELSE IF s.selected_actor # None /\ s.selected_actor # actor THEN
    [s EXCEPT !.color[s.selected_actor] = BaseColor(s.selected_actor),
              !.selected_actor = None]
  ELSE s

\* A variant of MoveHighlight that selects the handle without colouring it
MoveHighlight_keeps_colour(s, actor) ==
  IF actor # None /\ s.selected_actor = None /\ actor \in Handles
  THEN [s EXCEPT !.selected_actor = actor]
  ELSE s

\* A variant of MoveHighlight that highlights the picked handle whether or
\* not another one is selected
MoveHighlight_any_time(s, actor) ==
  IF actor # None /\ actor \in Handles
  THEN [s EXCEPT !.color[actor] = DARK_YELLOW, !.selected_actor = actor]
  ELSE s

\* The end of _move_callback: highlight the picked handle if none is selected
MoveHighlight(s, actor) ==
  IF actor # None /\ s.selected_actor = None /\ actor \in Handles
  THEN [s EXCEPT !.color[actor] = DARK_YELLOW, !.selected_actor = actor]
  ELSE s

_move_callback(s, actor, point, view_vec) ==
  IF s.pressing_down /\ s.selected_actor \notin Handles
  THEN s       \* raised before the highlight
  ELSE MoveHighlight(MoveDragOrDeselect(s, actor, point, view_vec), actor)

\* A variant of _press_callback that starts a drag whatever is selected
_press_callback_always(s, point, view_vec) ==
  [s EXCEPT !.style = TrackballActorStyle,
            !.pressing_down = TRUE,
            !.init_position =
               IF InList(Circles, s.selected_actor)
               THEN _get_world_coord_rot(s, point, view_vec)
               ELSE IF InList(Arrows, s.selected_actor)
               THEN _get_world_coord_trans(s, point, view_vec)
               ELSE point]

_press_callback(s, point, view_vec) ==
  IF s.selected_actor # None
  THEN [s EXCEPT !.style = TrackballActorStyle,
                 !.pressing_down = TRUE,
                 !.init_position =
                    IF InList(Circles, s.selected_actor)
                    THEN _get_world_coord_rot(s, point, view_vec)
                    ELSE _get_world_coord_trans(s, point, view_vec)]
  ELSE s

\* callable(callback), and the truth value of callback
Callable(cb) == cb \in {"callable", "failing_callable"}
Truthy(cb) == cb \notin {None, "falsy_noncallable"}

\* try_callback(self._callback, matrix): the call is recorded; a failure of
\* the callback is caught and reported there, and nothing is raised.
try_callback(s, matrix) == [s EXCEPT !.calls = Append(@, matrix)]

\* A variant of _release_callback that does not refresh the cached matrix
_release_callback_stale_cache(s) ==
  IF Truthy(s.callback)
  THEN try_callback([s EXCEPT !.style = TrackballStyle,
                              !.pressing_down = FALSE],
                    s.user_matrix)
  ELSE [s EXCEPT !.style = TrackballStyle,
                 !.pressing_down = FALSE]

\* A variant of _release_callback that calls back only when a drag ends
_release_callback_only_after_drag(s) ==
  IF Truthy(s.callback) /\ s.pressing_down
  THEN try_callback([s EXCEPT !.style = TrackballStyle,
                              !.pressing_down = FALSE,
                              !.cached_matrix = s.user_matrix],
                    s.user_matrix)
  ELSE [s EXCEPT !.style = TrackballStyle,
                 !.pressing_down = FALSE,
                 !.cached_matrix = s.user_matrix]

\* A variant of _release_callback that leaves the interaction style alone
_release_callback_keeps_style(s) ==
  IF Truthy(s.callback)
  THEN try_callback([s EXCEPT !.pressing_down = FALSE,
                              !.cached_matrix = s.user_matrix],
                    s.user_matrix)
  ELSE [s EXCEPT !.pressing_down = FALSE,
                 !.cached_matrix = s.user_matrix]

\* A variant of _release_callback that calls the callback directly, so
\* that its failure reaches the caller of the handler
_release_callback_direct_call(s) ==
  IF Truthy(s.callback)
  THEN [s EXCEPT !.style = TrackballStyle,
                 !.pressing_down = FALSE,
                 !.cached_matrix = s.user_matrix,
                 !.calls = Append(@, s.user_matrix),
                 !.raised = IF s.callback = "failing_callable"
                            THEN "Exception" ELSE @]
  ELSE [s EXCEPT !.style = TrackballStyle,
                 !.pressing_down = FALSE,
                 !.cached_matrix = s.user_matrix]

_release_callback(s) ==
  IF Truthy(s.callback)
  THEN try_callback([s EXCEPT !.style = TrackballStyle,
                              !.pressing_down = FALSE,
                              !.cached_matrix = s.user_matrix],
                    s.user_matrix)
  ELSE [s EXCEPT !.style = TrackballStyle,
                 !.pressing_down = FALSE,
                 !.cached_matrix = s.user_matrix]

_reset(s) == [s EXCEPT !.user_matrix = Eye4, !.cached_matrix = Eye4]

\* A variant of the origin setter that moves the arrows only
set_origin_arrows_only(s, value) ==
  [s EXCEPT !.handle_position =
               [h \in Handles |->
                  IF InList(Arrows, h)
                  THEN VAdd(s.handle_position[h], VSub(value, s.origin))
                  ELSE s.handle_position[h]],
            !.origin = value]

\* The origin setter
set_origin(s, value) ==
  [s EXCEPT !.handle_position =
               [h \in Handles |-> VAdd(s.handle_position[h], VSub(value, s.origin))],
            !.origin = value]

\* A variant of enable that switches to mesh picking whatever the plotter has
enable_always_picks(s) ==
  [add_observer(add_observer(add_observer(enable_mesh_picking(s),
      "MouseMoveEvent"), "LeftButtonPressEvent"), "LeftButtonReleaseEvent")
   EXCEPT !.mouse_move_observer = s.next_tag,
          !.pl_left_press_observer = s.next_tag + 1,
          !.pl_left_release_observer = s.next_tag + 2]

\* self.<attr> = self._pl.iren.add_observer(ev, handler)
ObserveInto(s, ev, attr) == [add_observer(s, ev) EXCEPT ![attr] = s.next_tag]

enable(s) ==
  ObserveInto(
    ObserveInto(
      ObserveInto(IF ~s.picker_in_use THEN enable_mesh_picking(s) ELSE s,
                  "MouseMoveEvent", "mouse_move_observer"),
      "LeftButtonPressEvent", "pl_left_press_observer"),
    "LeftButtonReleaseEvent", "pl_left_release_observer")

\* if observer: self._pl.iren.remove_observer(observer)
RemoveIfSet(s, tag) == IF tag # 0 THEN remove_observer(s, tag) ELSE s

disable(s) ==
  RemoveIfSet(
    RemoveIfSet(
      RemoveIfSet(disable_picking(s), s.mouse_move_observer),
      s.left_press_observer),
    s.left_release_observer)

\* A variant of remove that fails when the handles are not in the renderer
remove_strict(s) ==
  IF Handles \subseteq s.renderer_actors
  THEN [disable(s) EXCEPT !.renderer_actors = @ \ Handles]
  ELSE [disable(s) EXCEPT !.raised = "ValueError"]

remove(s) == [disable(s) EXCEPT !.renderer_actors = @ \ Handles]

\* _init_actors: the six handles are added to the renderer in their axis colours
_init_actors(s) ==
  [s EXCEPT !.renderer_actors = @ \cup Handles,
            !.color = [h \in Handles |-> BaseColor(h)],
            !.handle_position = [h \in Handles |-> Vec(0, 0, 0)]]

\* A variant of InitFields that always caches the identity
InitFields_identity_cache(s) ==
  [s EXCEPT !.selected_actor = None,
            !.mouse_move_observer = 0,
            !.left_press_observer = 0,
            !.left_release_observer = 0,
            !.user_matrix = IF @ = Unset THEN Eye4 ELSE @,
            !.cached_matrix = Eye4,
            !.pressing_down = FALSE,
            !.origin = Vec(0, 0, 0)]

\* __init__ up to the validation of callback
InitFields(s) ==
  [s EXCEPT !.selected_actor = None,
            !.mouse_move_observer = 0,
            !.left_press_observer = 0,
            !.left_release_observer = 0,
            !.user_matrix = IF @ = Unset THEN Eye4 ELSE @,
            !.cached_matrix = IF s.user_matrix = Unset THEN Eye4 ELSE s.user_matrix,
            !.pressing_down = FALSE,
            !.origin = Vec(0, 0, 0)]

\* __init__ from the validation of callback on
InitRest(s, cb, start) ==
  IF Truthy(cb) /\ ~Callable(cb)
  THEN [s EXCEPT !.phase = "rejected", !.raised = "TypeError"]
  ELSE IF start
  THEN enable(_init_actors([s EXCEPT !.callback = cb, !.phase = "live"]))
  ELSE _init_actors([s EXCEPT !.callback = cb, !.phase = "live"])

\* (a, b) < (c, d) on version tuples
VersionLess(v, w) == v[1] < w[1] \/ (v[1] = w[1] /\ v[2] < w[2])

\* if pv.vtk_version_info < (9, 2): VTKVersionError(...): the error is
\* built and dropped, not raised
VersionCheck(s) ==
  IF VersionLess(s.vtk_version, <<9, 2>>) THEN s ELSE s

\* AffineWidget3D.__init__(plotter, actor, callback=cb, start=start)
__init__(s, cb, start) == InitRest(InitFields(VersionCheck(s)), cb, start)

(***************************************************************************)
(* Inputs.                                                                 *)
(***************************************************************************)
Coords == {0, 1}
\* Unprojected world points of the cursor
Points == {Vec(x, y, z) : x \in Coords, y \in Coords, z \in Coords}
FewPoints == {Vec(1, 0, 0), Vec(0, 1, 1)}
\* Camera directions (ray_plane_intersection does not depend on their length);
\* the second is parallel to the planes normal to the X and Y axes.
ViewVecs == {Vec(0 - 1, 0 - 1, 0 - 1), Vec(0, 0, 0 - 1)}
OneView == {Vec(0 - 1, 0 - 1, 0 - 1)}
Origins == {Vec(0, 0, 0), Vec(1, 0, 0)}
\* The target's transform before the widget is built
InitialMatrices == {Unset, Eye4, TranslationMatrix(Vec(0, 1, 0))}
CallbackArgs ==
  {None, "callable", "failing_callable", "falsy_noncallable", "truthy_noncallable"}
\* pv.vtk_version_info, older than and at the version the picker needs
VtkVersions == {<<9, 1>>, <<9, 2>>}

(***************************************************************************)
(* The state machine.                                                      *)
(***************************************************************************)
\* Before the constructor runs: a plotter, and a target actor whose
\* transform is actor_matrix.
\* No module-level function has been called
NoCall == [fn |-> "none", args |-> <<>>, result |-> <<>>]
\* The themes of the model; a new Theme() holds the default
Themes == {"default", "dark"}
\* The picking modes a plotter can be in before the widget is built
PickersBefore == {None, "other"}

InitFrom(matrices, versions, pickers) ==
  /\ phase = "new"
  /\ callback = None
  /\ selected_actor = None
  /\ init_position = Unset
  /\ mouse_move_observer = 0
  /\ left_press_observer = 0
  /\ left_release_observer = 0
  /\ pl_left_press_observer = 0
  /\ pl_left_release_observer = 0
  /\ cached_matrix = Unset
  /\ user_matrix \in matrices
  /\ pressing_down = FALSE
  /\ origin = Vec(0, 0, 0)
  /\ color = [h \in Handles |-> BaseColor(h)]
  /\ handle_position = [h \in Handles |-> Vec(0, 0, 0)]
  /\ observers = {}
  /\ next_tag = 1
  /\ picker \in pickers
  /\ picker_in_use = (picker # None)
  /\ style = TrackballStyle
  /\ renderer_actors = {}
  /\ calls = <<>>
  /\ current_pos = Unset
  /\ event = "none"
  /\ drags = 0
  /\ vtk_version \in versions
  /\ raised = None
  /\ call = NoCall
  /\ global_theme = "default"
  /\ class_theme = "default"
  /\ text_props = <<>>
  /\ text_actors = <<>>

\* The same on a plotter with no picking mode
InitAt(matrices, versions) == InitFrom(matrices, versions, {None})

\* The same with a rendering engine that has the hardware picker
InitWith(matrices) == InitAt(matrices, {<<9, 2>>})

\* The state an operation starts from: the call log and the recorded
\* current_pos are per operation.
Begin(name) ==
  [State EXCEPT !.event = name, !.calls = <<>>, !.current_pos = Unset,
                !.raised = None]

\* One physical event runs the handler of every observer registered for it.
RECURSIVE RunMove(_, _, _, _, _)
RunMove(s, n, actor, point, view_vec) ==
  IF n = 0 THEN s
  ELSE RunMove(_move_callback(s, actor, point, view_vec), n - 1, actor, point, view_vec)
RECURSIVE RunPress(_, _, _, _)
RunPress(s, n, point, view_vec) ==
  IF n = 0 THEN s
  ELSE RunPress(_press_callback(s, point, view_vec), n - 1, point, view_vec)
RECURSIVE RunRelease(_, _)
RunRelease(s, n) ==
  IF n = 0 THEN s ELSE RunRelease(_release_callback(s), n - 1)

\* Whether the rotation a drag asks for is a value of the model (a multiple
\* of 90 degrees, or a degenerate geometry)
DragInModel(s, point, view_vec) ==
  InList(Circles, s.selected_actor) =>
    /\ Normalizable(ProjectOnPlane(VSub(_get_world_coord_rot(s, point, view_vec), s.origin),
                                   AXES[IndexOf(Circles, s.selected_actor)]))
    /\ Normalizable(ProjectOnPlane(VSub(s.init_position, s.origin),
                                   AXES[IndexOf(Circles, s.selected_actor)]))

ConstructWith(cbs, starts) ==
  /\ phase = "new"
  /\ \E cb \in cbs, start \in starts :
       Becomes(__init__(Begin("init"), cb, start))

\* A MouseMoveEvent: the handlers read the cursor's world point only during
\* a drag.
MouseMoveWith(dragpicks, points, views) ==
  /\ phase = "live"
  /\ \E actor \in IF pressing_down THEN dragpicks ELSE Picks :
     \E point \in IF pressing_down THEN points ELSE {Unset} :
     \E view_vec \in IF pressing_down THEN views ELSE {Unset} :
     \E s \in {Begin("move")} :
       /\ (pressing_down /\ Registered(s, "MouseMoveEvent") > 0)
             => DragInModel(s, point, view_vec)
       /\ \E after \in {RunMove(s, Registered(s, "MouseMoveEvent"),
                                actor, point, view_vec)} :
            /\ pressing_down => MatrixInRange(after.user_matrix)
            /\ Becomes(after)

\* A LeftButtonPressEvent: the handlers read the cursor's world point only
\* when a handle is selected.
LeftButtonPressWith(points, views) ==
  /\ phase = "live"
  /\ \E point \in IF selected_actor # None THEN points ELSE {Unset} :
     \E view_vec \in IF selected_actor # None THEN views ELSE {Unset} :
     \E s \in {Begin("press")} :
       /\ (Registered(s, "LeftButtonPressEvent") > 0 /\ selected_actor # None)
             => drags < MaxDrags
       /\ Becomes([RunPress(s, Registered(s, "LeftButtonPressEvent"),
                            point, view_vec)
                     EXCEPT !.drags =
                       IF Registered(s, "LeftButtonPressEvent") > 0
                            /\ selected_actor # None
                       THEN @ + 1 ELSE @])

LeftButtonRelease ==
  /\ phase = "live"
  /\ \E s \in {Begin("release")} :
       Becomes(RunRelease(s, Registered(s, "LeftButtonReleaseEvent")))

Reset ==
  /\ phase = "live"
  /\ Becomes(_reset(Begin("reset")))

SetOrigin ==
  /\ phase = "live"
  /\ \E value \in Origins : Becomes(set_origin(Begin("origin"), value))

Enable ==
  /\ phase = "live"
  /\ next_tag + 2 <= MaxTag
  /\ Becomes(enable(Begin("enable")))

Disable ==
  /\ phase = "live"
  /\ Becomes(disable(Begin("disable")))

Remove ==
  /\ phase = "live"
  /\ Becomes(remove(Begin("remove")))

(***************************************************************************)
(* Spec: every operation, on a widget built with or without a callback     *)
(* and started or not, with few cursor positions.                          *)
(***************************************************************************)
Init == InitWith({Unset})
Construct == ConstructWith({None, "callable"}, BOOLEAN)
MouseMove == MouseMoveWith(Picks, FewPoints, OneView)
LeftButtonPress == LeftButtonPressWith(FewPoints, OneView)

Next ==
  \/ Construct
  \/ MouseMove
  \/ LeftButtonPress
  \/ LeftButtonRelease
  \/ Reset
  \/ SetOrigin
  \/ Enable
  \/ Disable
  \/ Remove

Spec == Init /\ [][Next]_vars

(***************************************************************************)
(* SpecDrag: the mouse handlers, reset and the origin setter on a started  *)
(* widget, with every cursor position and camera direction of the model.   *)
(***************************************************************************)
DragInit == InitWith({Unset, TranslationMatrix(Vec(0, 1, 0))})
DragConstruct == ConstructWith({"callable"}, {TRUE})
DragMouseMove == MouseMoveWith({None}, Points, ViewVecs)
DragLeftButtonPress == LeftButtonPressWith(Points, ViewVecs)

DragNext ==
  \/ DragConstruct
  \/ DragMouseMove
  \/ DragLeftButtonPress
  \/ LeftButtonRelease
  \/ Reset
  \/ SetOrigin

SpecDrag == DragInit /\ [][DragNext]_vars

(***************************************************************************)
(* The constructor on every kind of argument: any target transform, any    *)
(* engine version, any callback value; then the mouse operations.          *)
(***************************************************************************)
BuildInit == InitFrom(InitialMatrices, VtkVersions, PickersBefore)
BuildConstruct == ConstructWith(CallbackArgs, BOOLEAN)
BuildMouseMove == MouseMoveWith({None}, FewPoints, OneView)
BuildLeftButtonPress == LeftButtonPressWith(FewPoints, OneView)

BuildNext ==
  \/ BuildConstruct
  \/ BuildMouseMove
  \/ BuildLeftButtonPress
  \/ LeftButtonRelease
  \/ Enable

SpecBuild == BuildInit /\ [][BuildNext]_vars

(***************************************************************************)
(* The module-level functions called on their own.                         *)
(***************************************************************************)
widget_vars ==
  << phase, callback, selected_actor, init_position, mouse_move_observer,
     left_press_observer, left_release_observer, pl_left_press_observer,
     pl_left_release_observer, cached_matrix, user_matrix, pressing_down,
     origin, color, handle_position, observers, next_tag, picker_in_use,
     style, renderer_actors, calls, current_pos, event, drags, vtk_version,
     raised, picker >>
text_vars == << global_theme, class_theme, text_props, text_actors >>

\* Arguments of get_angle: every vector with components -1, 0, 1 and the
\* vector of its test
AngleVecs ==
  {<<x, y, z>> : x \in {0 - 1, 0, 1}, y \in {0 - 1, 0, 1}, z \in {0 - 1, 0, 1}}
    \cup {Vec(1, 2, 3)}
\* Arguments of ray_plane_intersection
RayStarts == {Vec(0, 0, 0), Vec(1, 0, 1)}
RayDirections == {Vec(0, 0, 1), Vec(1, 1, 1), Vec(1, 0, 0), Vec(0, 0 - 1, 0 - 1)}
PlanePoints == {Vec(0, 0, 5), Vec(0, 0, 0), Vec(1, 2, 0)}
PlaneNormals == {Vec(0, 0, 1), Vec(0, 1, 0), Vec(1, 1, 0), Vec(0, 0, 2)}

CallGetAngle ==
  /\ \E v1 \in AngleVecs, v2 \in AngleVecs :
       call' = [fn |-> "get_angle", args |-> <<v1, v2>>,
                result |-> get_angle(v1, v2)]
  /\ UNCHANGED <<widget_vars, text_vars>>

\* The calls whose t_value is a value of the model
CallRayPlane ==
  /\ \E start_point \in RayStarts, direction \in RayDirections,
        plane_point \in PlanePoints, normal \in PlaneNormals :
       /\ ExactDiv(Dot(normal, VSub(plane_point, start_point)),
                   Dot(normal, direction))
       /\ call' = [fn |-> "ray_plane_intersection",
                   args |-> <<start_point, direction, plane_point, normal>>,
                   result |-> ray_plane_intersection(start_point, direction,
                                                     plane_point, normal)]
  /\ UNCHANGED <<widget_vars, text_vars>>

PureNext ==
  \/ CallGetAngle
  \/ CallRayPlane

SpecPure == Init /\ [][PureNext]_vars

(***************************************************************************)
(* Text objects (src/pyvista/plotting/text.py).  A TextProperty object is  *)
(* known by its place in text_props; it exists from the moment the VTK     *)
(* object is allocated, whether or not the rest of __init__ completes.     *)
(***************************************************************************)
TextState ==
  [ global_theme |-> global_theme, class_theme |-> class_theme,
    text_props |-> text_props, text_actors |-> text_actors ]

TextBecomes(ts) ==
  /\ global_theme' = ts.global_theme
  /\ class_theme' = ts.class_theme
  /\ text_props' = ts.text_props
  /\ text_actors' = ts.text_actors
  /\ UNCHANGED <<widget_vars, call>>

\* Theme.load_theme(other): the theme object takes the other's settings
load_theme(self_theme, other) == other

\* TextProperty.color = value.  The setter's parameter is colo and its body
\* reads color, a name bound neither in the setter nor in the module.
set_color(prop, value) == [prop EXCEPT !.raised = "NameError"]

\* TextProperty.color (getter): Color(self.GetColor())
get_color(prop) == prop.color

\* self._theme of a TextProperty: no instance has a _theme of its own, so the
\* attribute is the one Theme object of the class
PropertyTheme(ts, k) == ts.class_theme

\* TextProperty.__init__(theme=theme, color=color) with the other arguments
\* defaulted; a new vtkTextProperty has VTK's own colour
TextProperty__init__(ts, theme, color_) ==
  [ts EXCEPT
     !.class_theme =
        load_theme(@, IF theme = None THEN ts.global_theme ELSE theme),
     !.text_props =
        Append(@, set_color(
          [theme_arg |-> theme,
           color_arg |-> color_,
           color |-> <<"color", "vtk default">>,
           created_with |->
             load_theme(ts.class_theme,
                        IF theme = None THEN ts.global_theme ELSE theme),
           raised |-> None],
          color_))]

\* References to text property objects: the k-th TextProperty of the model,
PropertyRef(k) == <<"TextProperty", k>>
\* prop=None,
NoProp == <<"None", 0>>
\* the vtkTextProperty a VTK actor is allocated with,
OwnVtkProperty == <<"own vtkTextProperty", 0>>
\* and a vtkTextProperty the caller made outside the model's objects
CallerProperty == <<"caller's vtkTextProperty", 0>>

\* if prop is None: self.prop = TextProperty()
ActorWith(ts, kind, prop) ==
  IF prop = NoProp
  THEN [TextProperty__init__(ts, None, None) EXCEPT
          !.text_actors =
             Append(@,
               IF TextProperty__init__(ts, None, None)
                    .text_props[Len(ts.text_props) + 1].raised # None
               THEN [kind |-> kind, prop_arg |-> prop, prop |-> OwnVtkProperty,
                     raised |-> TextProperty__init__(ts, None, None)
                                  .text_props[Len(ts.text_props) + 1].raised]
               ELSE [kind |-> kind, prop_arg |-> prop,
                     prop |-> PropertyRef(Len(ts.text_props) + 1),
                     raised |-> None])]
  ELSE [ts EXCEPT
          !.text_actors =
             Append(@, [kind |-> kind, prop_arg |-> prop,
                        prop |-> OwnVtkProperty, raised |-> None])]

\* Text.__init__(prop=prop)
Text__init__(ts, prop) == ActorWith(ts, "Text", prop)
\* CornerAnnotation.__init__(position, text, prop=prop)
CornerAnnotation__init__(ts, prop) == ActorWith(ts, "CornerAnnotation", prop)

\* The values a caller can pass as color
Colors == {None, "red"}
\* The values a caller can pass as prop
PropArgs ==
  {NoProp, CallerProperty} \cup {PropertyRef(k) : k \in 1..Len(text_props)}

NewTextProperty ==
  /\ Len(text_props) < MaxProps
  /\ \E theme \in {None} \cup Themes, color_ \in Colors :
       TextBecomes(TextProperty__init__(TextState, theme, color_))

SetGlobalTheme ==
  \E theme \in Themes \ {global_theme} :
    TextBecomes([TextState EXCEPT !.global_theme = theme])

NewText ==
  /\ Len(text_actors) < MaxActors
  /\ Len(text_props) < MaxProps
  /\ \E prop \in PropArgs : TextBecomes(Text__init__(TextState, prop))

NewCornerAnnotation ==
  /\ Len(text_actors) < MaxActors
  /\ Len(text_props) < MaxProps
  /\ \E prop \in PropArgs :
       TextBecomes(CornerAnnotation__init__(TextState, prop))

TextNext ==
  \/ NewTextProperty
  \/ SetGlobalTheme
  \/ NewText
  \/ NewCornerAnnotation

SpecText == Init /\ [][TextNext]_vars

(***************************************************************************)
(* Properties.                                                             *)
(***************************************************************************)
\* How many observers of the widget the event source holds for an event
Observed(ev) == Cardinality({o \in observers : o.event = ev})
MouseEvents == {"move", "press", "release"}

\* C1: whenever a widget exists and no drag is in progress, the cached
\* matrix equals the target's current matrix.
C1_CachedEqualsTarget ==
  (phase = "live" /\ ~pressing_down) => cached_matrix = user_matrix
\* A drag has moved the target and the release has ended it.
C1_Witness ==
  /\ event = "release"
  /\ ~pressing_down
  /\ drags = 1
  /\ user_matrix # Eye4
  /\ cached_matrix = user_matrix

\* C2 (as claimed): the callback is invoked only by a release that ends a
\* drag, and then exactly once, with the target's matrix.
C2_Original ==
  [][ /\ calls' # <<>> =>
           (event' = "release" /\ pressing_down /\ calls' = <<user_matrix'>>)
      /\ (event' = "release" /\ pressing_down /\ callback = "callable") =>
           Len(calls') = 1 ]_vars
\* C2 (amended): every run of the release handler invokes a registered
\* callback once with the target's matrix, whether or not the release ends
\* a drag, so one release event invokes it once per release observer; no
\* other operation invokes it.
C2_CallbackPerReleaseHandler ==
  /\ event # "release" => calls = <<>>
  /\ event = "release" =>
       /\ Len(calls) = IF callback = "callable"
                       THEN Observed("LeftButtonReleaseEvent") ELSE 0
       /\ \A k \in 1..Len(calls) : calls[k] = user_matrix
\* A release after a drag that moved the target has invoked the callback.
C2_Witness ==
  /\ event = "release"
  /\ drags = 1
  /\ user_matrix # Eye4
  /\ calls = <<user_matrix>>

\* C3: a move handled while no drag is in progress changes neither the
\* target's matrix nor the cached matrix.
C3_HoverLeavesMatrices ==
  [][ (event' = "move" /\ ~pressing_down) =>
        (user_matrix' = user_matrix /\ cached_matrix' = cached_matrix) ]_vars
\* The cursor has left a handle again, after a drag that moved the target.
C3_Witness ==
  /\ event = "move"
  /\ ~pressing_down
  /\ selected_actor = None
  /\ drags = 1
  /\ user_matrix # Eye4

\* C4: a move during a drag of the translation arrow of axis i leaves the
\* cached matrix alone and makes the target's matrix the cached matrix with
\* only its entry [i, 3] changed, by (current - initial)[i].
C4_TranslationDrag ==
  [][ (event' = "move" /\ pressing_down' /\ InList(Arrows, selected_actor')
         /\ current_pos' # Unset) =>
        /\ cached_matrix' = cached_matrix
        /\ \A r \in 1..4, c \in 1..4 :
             user_matrix'[r][c] =
               IF r = IndexOf(Arrows, selected_actor') /\ c = 4
               THEN FAdd(cached_matrix'[r][c],
                         FSub(current_pos'[r], init_position'[r]))
               ELSE cached_matrix'[r][c] ]_vars
\* A drag of the x arrow has moved a target that was already translated.
C4_Witness ==
  /\ event = "move"
  /\ pressing_down
  /\ selected_actor = "arrow_x"
  /\ current_pos # Unset
  /\ cached_matrix = TranslationMatrix(Vec(0, 1, 0))
  /\ user_matrix = TranslationMatrix(Vec(1, 1, 0))

\* The rotation by a multiple of 90 degrees about axis i, as a 3x3 matrix
AxisRotation3(i, angle) ==
  IF i = 1 THEN << <<1, 0, 0>>,
                   <<0, CosDeg(angle), FNeg(SinDeg(angle))>>,
                   <<0, SinDeg(angle), CosDeg(angle)>> >>
  ELSE IF i = 2 THEN << <<CosDeg(angle), 0, SinDeg(angle)>>,
                        <<0, 1, 0>>,
                        <<FNeg(SinDeg(angle)), 0, CosDeg(angle)>> >>
  ELSE << <<CosDeg(angle), FNeg(SinDeg(angle)), 0>>,
          <<SinDeg(angle), CosDeg(angle), 0>>,
          <<0, 0, 1>> >>
\* A 3x3 matrix applied to a vector
Apply3(m, v) == <<Dot(m[1], v), Dot(m[2], v), Dot(m[3], v)>>
\* The map p |-> R(p - o) + o as a 4x4 matrix
PivotRotation(o, i, angle) ==
  << Append(AxisRotation3(i, angle)[1],
            o[1] - Apply3(AxisRotation3(i, angle), o)[1]),
     Append(AxisRotation3(i, angle)[2],
            o[2] - Apply3(AxisRotation3(i, angle), o)[2]),
     Append(AxisRotation3(i, angle)[3],
            o[3] - Apply3(AxisRotation3(i, angle), o)[3]),
     <<0, 0, 0, 1>> >>
\* The arm from the widget's origin to a world point, in the plane of ring i
Arm(p, i) == ProjectOnPlane(VSub(p, origin), AXES[i])
\* The drag's geometry is not degenerate: both arms exist
ProperRotationDrag(i) ==
  /\ VFinite(init_position) /\ VFinite(current_pos)
  /\ Arm(init_position, i) # Vec(0, 0, 0)
  /\ Arm(current_pos, i) # Vec(0, 0, 0)
\* Whether turning by angle about axis i takes the initial arm's direction
\* to the current arm's direction
Turns(i, angle) ==
  Apply3(AxisRotation3(i, angle), Normalize(Arm(init_position, i)))
    = Normalize(Arm(current_pos, i))

\* C5: a move during a drag of the rotation ring of axis i makes the
\* target's matrix R * cached, R being the rotation about axis i, with the
\* widget's origin as pivot, by the signed angle from the initial arm to the
\* current arm; from an identity cached matrix the result rotates about
\* axis i only.
C5_RotationDrag ==
  (event = "move" /\ pressing_down /\ InList(Circles, selected_actor)
     /\ current_pos # Unset /\ ProperRotationDrag(IndexOf(Circles, selected_actor))) =>
    /\ \E angle \in {0, 90, 180, 0 - 90} :
         /\ Turns(IndexOf(Circles, selected_actor), angle)
         /\ user_matrix =
              MatMul(PivotRotation(origin, IndexOf(Circles, selected_actor), angle),
                     cached_matrix)
    /\ cached_matrix = Eye4 =>
         \A k \in 1..3 :
           /\ user_matrix[IndexOf(Circles, selected_actor)][k]
                = Eye4[IndexOf(Circles, selected_actor)][k]
           /\ user_matrix[k][IndexOf(Circles, selected_actor)]
                = Eye4[k][IndexOf(Circles, selected_actor)]
\* A quarter turn about z, pivot (1, 0, 0), of a target translated by (0, 1, 0)
C5_Witness ==
  /\ event = "move"
  /\ pressing_down
  /\ selected_actor = "circle_z"
  /\ current_pos # Unset
  /\ ProperRotationDrag(3)
  /\ origin = Vec(1, 0, 0)
  /\ cached_matrix = TranslationMatrix(Vec(0, 1, 0))
  /\ \/ Turns(3, 90)
     \/ Turns(3, 0 - 90)

\* C6: a release handled by the widget restores the default camera style,
\* ends the drag and makes the cached matrix the target's matrix, which it
\* leaves as the last move left it.
C6_Release ==
  [][ (event' = "release" /\ Observed("LeftButtonReleaseEvent") > 0) =>
        /\ style' = TrackballStyle
        /\ ~pressing_down'
        /\ user_matrix' = user_matrix
        /\ cached_matrix' = user_matrix ]_vars
\* A release has ended a drag that moved the target.
C6_Witness ==
  /\ event = "release"
  /\ drags = 1
  /\ style = TrackballStyle
  /\ ~pressing_down
  /\ calls # <<>>
  /\ user_matrix # Eye4
  /\ cached_matrix = user_matrix

\* C7 (as claimed): after a reset, from any state, a drag in progress
\* included, the target's matrix and the cached matrix are the identity and
\* no drag is in progress.
C7_Original ==
  event = "reset" =>
    (user_matrix = Eye4 /\ cached_matrix = Eye4 /\ ~pressing_down)

\* Exactly one observer of the widget for each of the three mouse events
OneOfEach ==
  /\ Observed("MouseMoveEvent") = 1
  /\ Observed("LeftButtonPressEvent") = 1
  /\ Observed("LeftButtonReleaseEvent") = 1

\* C8 (as claimed): a second enable() in a row leaves exactly one move, one
\* press and one release observer registered.
C8_Original ==
  [][ (event = "enable" /\ event' = "enable") => OneOfEach' ]_vars

\* C9 (as claimed): after disable() none of the widget's handlers is
\* registered, and a mouse event that follows changes neither the widget's
\* state nor the target's matrix and invokes no callback.
C9_Original ==
  [][ /\ event' = "disable" => observers' = {}
      /\ (event = "disable" /\ event' \in MouseEvents) =>
           /\ calls' = <<>>
           /\ user_matrix' = user_matrix
           /\ cached_matrix' = cached_matrix
           /\ pressing_down' = pressing_down
           /\ selected_actor' = selected_actor
           /\ init_position' = init_position
           /\ style' = style
           /\ color' = color ]_vars

\* C10 (as claimed): enable() right after disable() leaves exactly one move,
\* one press and one release observer registered.
C10_Original ==
  [][ (event = "disable" /\ event' = "enable") => OneOfEach' ]_vars

\* C11 (as claimed): no widget is built with a callback that is neither
\* None nor callable; the constructor raises a TypeError instead.
C11_Original ==
  /\ phase = "live" => (callback = None \/ Callable(callback))
  /\ phase = "rejected" => raised = "TypeError"

\* C12 (as claimed): a constructor call that is rejected adds no handle to
\* the renderer, registers no observer, enables no picking and leaves the
\* target's matrix as it was before the call.
C12_Original ==
  [][ phase' = "rejected" =>
        /\ renderer_actors' = renderer_actors
        /\ observers' = observers
        /\ picker_in_use' = picker_in_use
        /\ user_matrix' = user_matrix ]_vars

\* C13 (as claimed): with an engine older than 9.2 no widget is built; the
\* constructor raises a version error.
C13_Original ==
  VersionLess(vtk_version, <<9, 2>>) =>
    /\ phase # "live"
    /\ phase = "rejected" => raised = "VTKVersionError"

\* C14: assigning an origin makes it the widget's origin, moves each of the
\* six handles by (new origin - old origin) and leaves the target's matrix
\* and the cached matrix alone; each handle's displacement since
\* construction is then (origin - initial origin), the initial origin and
\* the handles' initial translation being zero.
C14_OriginAssignment ==
  [][ event' = "origin" =>
        /\ \A value \in Origins : set_origin(State, value).origin = value
        /\ origin' \in Origins
        /\ \A h \in Handles :
             /\ handle_position'[h] =
                  VAdd(handle_position[h], VSub(origin', origin))
             /\ handle_position'[h] = origin'
        /\ user_matrix' = user_matrix
        /\ cached_matrix' = cached_matrix ]_vars
\* The origin was moved to (1, 0, 0) after a drag that moved the target.
C14_Witness ==
  /\ event = "origin"
  /\ origin = Vec(1, 0, 0)
  /\ \A h \in Handles : handle_position[h] = Vec(1, 0, 0)
  /\ drags = 1
  /\ user_matrix # Eye4

\* C15: at most one handle is selected, and a handle shows the highlight
\* colour exactly when it is the selected one; every other handle shows
\* the colour of its axis.
C15_HighlightIsSelection ==
  phase = "live" =>
    /\ selected_actor \in Handles \cup {None}
    /\ \A h \in Handles :
         color[h] = IF h = selected_actor THEN DARK_YELLOW ELSE BaseColor(h)
    /\ \A h \in Handles : BaseColor(h) # DARK_YELLOW
\* A ring is highlighted after an earlier drag with some handle.
C15_Witness ==
  /\ phase = "live"
  /\ drags = 1
  /\ ~pressing_down
  /\ selected_actor = "circle_y"
  /\ color["circle_y"] = DARK_YELLOW
  /\ color["arrow_x"] = BaseColor("arrow_x")

\* What C16 asks of the state after a move that picked actor
HoverOutcome(after, actor) ==
  /\ after.selected_actor = IF actor \in Handles THEN actor ELSE None
  /\ (selected_actor \in Handles /\ selected_actor # actor) =>
       after.color[selected_actor] = BaseColor(selected_actor)
  /\ actor \in Handles => after.color[actor] = DARK_YELLOW

\* C16: after a move handled while no drag is in progress, the selected
\* handle is the picked element if that is one of the six handles, and no
\* handle is selected otherwise; a handle that was selected and is no longer
\* picked has its axis colour back.
C16_HoverSelection ==
  (phase = "live" /\ ~pressing_down /\ Observed("MouseMoveEvent") > 0) =>
    \A actor \in Picks :
      HoverOutcome(RunMove(State, Observed("MouseMoveEvent"), actor, Unset, Unset),
                   actor)
\* A move has selected an arrow after an earlier drag was released.
C16_Witness ==
  /\ event = "move"
  /\ ~pressing_down
  /\ Observed("MouseMoveEvent") > 0
  /\ drags = 1
  /\ selected_actor = "arrow_z"
  /\ color["arrow_z"] = DARK_YELLOW

\* The plane normal a press projects the cursor onto, by handle kind
PressNormal(handle) ==
  IF InList(Circles, handle) THEN AXES[IndexOf(Circles, handle)]
  ELSE AXES[INDEX_MAPPER[IndexOf(Arrows, handle)]]

\* C17: a handled press with a handle selected starts a drag: dragging is
\* set, the interaction style is the actor style and the initial point is
\* the cursor's ray cut with the plane of that handle kind; with no handle
\* selected it changes neither the widget's state nor the style.
C17_Press ==
  [][ (event' = "press" /\ Observed("LeftButtonPressEvent") > 0) =>
        IF selected_actor # None
        THEN /\ pressing_down'
             /\ style' = TrackballActorStyle
             /\ selected_actor' = selected_actor
             /\ \E point \in FewPoints, view_vec \in OneView :
                  init_position' =
                    ray_plane_intersection(point, view_vec, origin,
                                           PressNormal(selected_actor))
             /\ \A point \in FewPoints, view_vec \in OneView :
                  _press_callback(State, point, view_vec).init_position =
                    ray_plane_intersection(point, view_vec, origin,
                                           PressNormal(selected_actor))
        ELSE /\ pressing_down' = pressing_down
             /\ style' = style
             /\ selected_actor' = selected_actor
             /\ init_position' = init_position
             /\ user_matrix' = user_matrix
             /\ cached_matrix' = cached_matrix
             /\ color' = color
             /\ origin' = origin ]_vars
\* A press on a selected ring has started a drag.
C17_Witness ==
  /\ event = "press"
  /\ pressing_down
  /\ style = TrackballActorStyle
  /\ selected_actor = "circle_z"
  /\ init_position # Unset

\* C18: a release whose callback fails raises nothing to the event loop
\* and leaves the widget as a successful release does: not dragging, the
\* default camera style, the cached matrix equal to the target's matrix.
C18_FailingCallback ==
  [][ (event' = "release" /\ callback = "failing_callable"
         /\ Observed("LeftButtonReleaseEvent") > 0) =>
        /\ calls' # <<>>
        /\ raised' = None
        /\ ~pressing_down'
        /\ style' = TrackballStyle
        /\ user_matrix' = user_matrix
        /\ cached_matrix' = user_matrix'
        /\ [State EXCEPT !.callback = "callable"]' =
             RunRelease([Begin("release") EXCEPT !.callback = "callable"],
                        Observed("LeftButtonReleaseEvent")) ]_vars
\* A drag that moved the target was released with a failing callback.
C18_Witness ==
  /\ event = "release"
  /\ callback = "failing_callable"
  /\ calls # <<>>
  /\ raised = None
  /\ drags = 1
  /\ user_matrix \notin InitialMatrices
  /\ cached_matrix = user_matrix

\* Every entry of a matrix is a finite number
MatrixFinite(m) == \A i \in 1..4 : \A j \in 1..4 : Finite(m[i][j])
\* The geometry of the drag is degenerate: a view ray parallel to the
\* handle's plane, or an arm of a rotation with zero length
DegenerateDrag ==
  \/ ~VFinite(init_position)
  \/ ~VFinite(current_pos)
  \/ /\ InList(Circles, selected_actor)
     /\ \/ Arm(init_position, IndexOf(Circles, selected_actor)) = Vec(0, 0, 0)
        \/ Arm(current_pos, IndexOf(Circles, selected_actor)) = Vec(0, 0, 0)

\* C19 (as claimed): a move handled during a drag writes only finite values
\* into the target's matrix and keeps the drag going, and a move whose
\* geometry is degenerate leaves the target's matrix and the cached matrix
\* as they were.
C19_Original ==
  [][ (event' = "move" /\ pressing_down /\ current_pos' # Unset) =>
        /\ pressing_down'
        /\ MatrixFinite(user_matrix')
        /\ MatrixFinite(cached_matrix')
        /\ DegenerateDrag' =>
             (user_matrix' = user_matrix /\ cached_matrix' = cached_matrix) ]_vars

\* C20 (as claimed): an origin assignment during a drag raises and leaves
\* the origin, the handles, the cached matrix and the target's matrix alone.
C20_Original ==
  [][ (event' = "origin" /\ pressing_down) =>
        /\ raised' # None
        /\ origin' = origin
        /\ handle_position' = handle_position
        /\ cached_matrix' = cached_matrix
        /\ user_matrix' = user_matrix ]_vars

C22_Original ==
  event = "remove" =>
    /\ renderer_actors \cap Handles = {}
    /\ ~picker_in_use
    /\ observers = {}

\* C25 (as claimed): a release that directly follows the press that started
\* a drag ends the drag, drops the initial pick point and leaves the
\* target's matrix and the cached matrix as they were.
C25_Original ==
  [][ (event = "press" /\ pressing_down /\ event' = "release"
         /\ Observed("LeftButtonReleaseEvent") > 0) =>
        /\ ~pressing_down'
        /\ init_position' = Unset
        /\ user_matrix' = user_matrix
        /\ cached_matrix' = cached_matrix ]_vars

\* C26: construction turns an unset transform of the target into the
\* identity, which is then the cached matrix too; a transform that is set
\* is left as it is and becomes the cached matrix.
C26_InitialMatrix ==
  [][ (event' = "init" /\ phase' = "live") =>
        IF user_matrix = Unset
        THEN user_matrix' = Eye4 /\ cached_matrix' = Eye4
        ELSE user_matrix' = user_matrix /\ cached_matrix' = user_matrix ]_vars
\* A widget was built on a target that was already translated.
C26_Witness ==
  /\ event = "init"
  /\ phase = "live"
  /\ user_matrix = TranslationMatrix(Vec(0, 1, 0))
  /\ cached_matrix = user_matrix

\* The directions of the two arms of the rotation drag in progress
DragVecInit == Normalize(Arm(init_position, IndexOf(Circles, selected_actor)))
DragVecCurrent == Normalize(Arm(current_pos, IndexOf(Circles, selected_actor)))

\* What C28 asks of the angle a from the initial to the current arm and of
\* the angle b from the current to the initial arm, about axis i
OppositeAngles(a, b, i) ==
  /\ (a < 0) <=> (Cross(DragVecInit, DragVecCurrent)[i] < 0)
  /\ Abs(a) = get_angle(DragVecInit, DragVecCurrent)
  /\ b = 0 - a \/ (a = 180 /\ b = 180)
  /\ MatMul(RotationTransform(origin, i, b), RotationTransform(origin, i, a)) = Eye4
  /\ user_matrix = MatMul(RotationTransform(origin, i, a), cached_matrix)

\* C28: in a rotation drag the applied angle is negative exactly when the
\* axis component of cross(initial, current) is negative; exchanging the
\* two points gives the opposite angle (a half turn both ways when the arms
\* are opposite) and the inverse rotation.
C28_AngleSign ==
  (event = "move" /\ pressing_down /\ InList(Circles, selected_actor)
     /\ current_pos # Unset /\ ProperRotationDrag(IndexOf(Circles, selected_actor))) =>
    OppositeAngles(
      SignedAngle(DragVecInit, DragVecCurrent, IndexOf(Circles, selected_actor)),
      SignedAngle(DragVecCurrent, DragVecInit, IndexOf(Circles, selected_actor)),
      IndexOf(Circles, selected_actor))
\* A rotation drag about y by a negative quarter turn
C28_Witness ==
  /\ event = "move"
  /\ pressing_down
  /\ selected_actor = "circle_y"
  /\ current_pos # Unset
  /\ ProperRotationDrag(2)
  /\ SignedAngle(DragVecInit, DragVecCurrent, 2) = 0 - 90

\* C29: enable switches the plotter to mesh picking only when no picker is
\* in use; a picker that is in use is kept as it is; either way a picker is
\* in use when enable returns, whether enable is called directly or by the
\* constructor.
C29_EnablePicking ==
  [][ (event' = "enable" \/ (event' = "init" /\ observers' # {})) =>
        /\ picker_in_use'
        /\ picker' = (IF picker_in_use THEN picker ELSE "mesh_hardware")
        /\ picker' # None ]_vars
\* enable has run on a plotter whose picker was another one, and kept it.
C29_Witness ==
  /\ event = "enable"
  /\ picker = "other"
  /\ picker_in_use
  /\ Observed("MouseMoveEvent") = 2

\* What the last call was given and what it returned
CallOf(fn) == call.fn = fn
Arg(k) == call.args[k]
Zero3 == Vec(0, 0, 0)
SameDirection(v1, v2) == Cross(v1, v2) = Zero3 /\ Dot(v1, v2) > 0
OppositeDirection(v1, v2) == Cross(v1, v2) = Zero3 /\ Dot(v1, v2) < 0

\* C23: for non-zero vectors of any length get_angle is the angle between
\* their directions, in [0, 180]: 0 exactly for vectors of the same
\* direction, 180 exactly for opposite ones, 90 exactly for orthogonal ones,
\* and the same when an argument is doubled.
C23_Original ==
  (CallOf("get_angle") /\ Arg(1) # Zero3 /\ Arg(2) # Zero3) =>
    /\ call.result \in 0..180
    /\ (call.result = 0) <=> SameDirection(Arg(1), Arg(2))
    /\ (call.result = 180) <=> OppositeDirection(Arg(1), Arg(2))
    /\ (call.result = 90) <=> (Dot(Arg(1), Arg(2)) = 0)
    /\ get_angle(VScale(2, Arg(1)), Arg(2)) = call.result
    /\ get_angle(Arg(1), VScale(2, Arg(2))) = call.result

\* The point start + t * direction of the last call is what it returned
ReturnedAt(t) ==
  /\ t * Dot(Arg(4), Arg(2)) = Dot(Arg(4), VSub(Arg(3), Arg(1)))
  /\ call.result = VAdd(Arg(1), VScale(t, Arg(2)))

\* C24: when the ray is not parallel to the plane, ray_plane_intersection
\* returns start + t * direction for the t with
\* t * dot(normal, direction) = dot(normal, plane_point - start); that point
\* is on the plane and on the line of the ray; the ray from the origin along
\* z meets the plane z = 5 at (0, 0, 5).
C24_RayPlane ==
  /\ ray_plane_intersection(Vec(0, 0, 0), Vec(0, 0, 1), Vec(0, 0, 5), Vec(0, 0, 1))
       = Vec(0, 0, 5)
  /\ (CallOf("ray_plane_intersection") /\ Dot(Arg(4), Arg(2)) # 0) =>
       /\ \E t \in (0 - Abs(Dot(Arg(4), VSub(Arg(3), Arg(1)))))
                     .. Abs(Dot(Arg(4), VSub(Arg(3), Arg(1)))) : ReturnedAt(t)
       /\ Dot(Arg(4), VSub(call.result, Arg(3))) = 0
       /\ Cross(VSub(call.result, Arg(1)), Arg(2)) = Zero3
\* A ray that starts off the plane and is oblique to it has been intersected
\* with it.
C24_Witness ==
  /\ CallOf("ray_plane_intersection")
  /\ Arg(1) = Vec(1, 0, 1)
  /\ Arg(2) = Vec(1, 1, 1)
  /\ Arg(3) = Vec(0, 0, 5)
  /\ Arg(4) = Vec(0, 0, 2)
  /\ call.result = Vec(5, 4, 5)

\* C27: an actor built with a prop has that object as its prop; an actor
\* built without one has a TextProperty of its own, and its construction
\* succeeds.
C27_Original ==
  \A a \in 1..Len(text_actors) :
    IF text_actors[a].prop_arg # NoProp
    THEN text_actors[a].prop = text_actors[a].prop_arg
    ELSE /\ text_actors[a].prop \in {PropertyRef(k) : k \in 1..Len(text_props)}
         /\ text_actors[a].raised = None

\* C30: the theme a TextProperty holds is the one loaded when it was
\* created, and no later creation or change of the global theme alters it.
C30_Original ==
  [][ \A k \in 1..Len(text_props) :
        /\ PropertyTheme(TextState, k) = text_props[k].created_with
        /\ PropertyTheme(TextState, k)' = PropertyTheme(TextState, k) ]_vars

\* The colour a read of color must give after value was assigned to a
\* property whose theme is theme
ColorAfter(value, theme) ==
  IF value = None THEN <<"font color", theme>> ELSE <<"color", value>>

\* C31: the construction of every TextProperty completes and leaves the
\* colour passed to it, or the font colour of its theme when none was
\* passed; assigning a colour to an existing TextProperty succeeds, and a
\* read then gives that colour, or the theme's font colour after None.
C31_Original ==
  \A k \in 1..Len(text_props) :
    /\ text_props[k].raised = None
    /\ get_color(text_props[k])
         = ColorAfter(text_props[k].color_arg, text_props[k].created_with)
    /\ \A value \in Colors :
         /\ set_color(text_props[k], value).raised = text_props[k].raised
         /\ get_color(set_color(text_props[k], value))
              = ColorAfter(value, PropertyTheme(TextState, k))

\* C32: whenever a drag is in progress a handle of the widget is selected,
\* and a move handled during a drag raises nothing.
C32_DragHasHandle ==
  /\ pressing_down => selected_actor \in Handles
  /\ (pressing_down /\ event = "move") => raised = None
\* A move of a drag with the ring of the y axis has been handled.
C32_Witness ==
  /\ pressing_down
  /\ event = "move"
  /\ Observed("MouseMoveEvent") > 0
  /\ selected_actor = "circle_y"
  /\ current_pos # Unset

\* C33: a move handled during a drag changes neither the selected handle nor
\* the colour of any handle, whatever is picked under the cursor.
C33_DragKeepsSelection ==
  /\ [][ (event' = "move" /\ pressing_down) =>
           (selected_actor' = selected_actor /\ color' = color) ]_vars
  /\ [](pressing_down =>
          \A actor \in Picks, point \in FewPoints, view_vec \in OneView :
            DragInModel(State, point, view_vec) =>
              /\ _move_callback(State, actor, point, view_vec).selected_actor
                   = selected_actor
              /\ _move_callback(State, actor, point, view_vec).color = color)
\* A drag with the arrow of the z axis has moved the target; the arrow is
\* still the highlighted one.
C33_Witness ==
  /\ event = "move"
  /\ pressing_down
  /\ Observed("MouseMoveEvent") > 0
  /\ selected_actor = "arrow_z"
  /\ color["arrow_z"] = DARK_YELLOW
  /\ user_matrix # cached_matrix

\* C35: the interaction style is the actor style exactly while a drag is in
\* progress, after every operation.
C35_StyleIffDragging ==
  /\ style \in {TrackballStyle, TrackballActorStyle}
  /\ (style = TrackballActorStyle) <=> pressing_down
\* A release has ended a drag on a widget that had been disabled during it.
C35_Witness ==
  /\ event = "release"
  /\ drags = 1
  /\ ~pressing_down
  /\ style = TrackballStyle
  /\ ~picker_in_use
  /\ Observed("MouseMoveEvent") = 0

\* C36: press, release, a move outside a drag, an origin assignment, enable,
\* disable and remove leave the target's matrix as it is.
C36_MatrixFrame ==
  [][ ( \/ event' \in {"press", "release", "origin", "enable", "disable", "remove"}
        \/ (event' = "move" /\ ~pressing_down) )
      => user_matrix' = user_matrix ]_vars
\* The origin was assigned during a drag that had moved the target.
C36_Witness ==
  /\ event = "origin"
  /\ pressing_down
  /\ user_matrix # cached_matrix
  /\ origin = Vec(1, 0, 0)

\* C34: the matrix a move of a drag gives the target is the same whatever
\* the earlier moves of the drag made of the target's matrix, and a move
\* whose current point is the initial pick point gives the cached matrix.
C34_Original ==
  [][ (event' = "move" /\ pressing_down /\ Observed("MouseMoveEvent") > 0) =>
        /\ current_pos' = init_position => user_matrix' = cached_matrix
        /\ \A point \in Points, view_vec \in ViewVecs :
             DragInModel(State, point, view_vec) =>
               _move_callback(State, None, point, view_vec).user_matrix
                 = _move_callback([State EXCEPT !.user_matrix = cached_matrix],
                                  None, point, view_vec).user_matrix ]_vars
====
